---- MODULE Spec2Model ----
(***************************************************************************)
(* Model of the Trustpilot API client of trustpilotEndpoint.py:            *)
(* TrustpilotConfig, TrustpilotAPIError, and TrustpilotAPIClient with its  *)
(* request executor (_make_request), the four single-request operations    *)
(* and the pagination loop of get_all_reviews.  The server and the network *)
(* are the environment: every answer is a nondeterministic choice.         *)
(***************************************************************************)
EXTENDS Integers, Sequences, FiniteSets, TLC

VARIABLES
    config,       \* self.config
    session,      \* self.session (its persistent headers)
    build,        \* class that response.json() raises in the installed requests
    pc,           \* "idle", or "loop" while get_all_reviews is in its while loop
    call,         \* the operation called last and its arguments
    page,         \* get_all_reviews: local `page`
    all_reviews,  \* get_all_reviews: local `all_reviews`
    wire,         \* history: the GET requests of the current operation, in order
    served,       \* history: the environment's answer to each of them
    events,       \* history: the steps of the latest _make_request call
    stdout,       \* history: lines printed by the current operation
    result        \* what the operation gave back to its caller

vars == <<config, session, build, pc, call, page, all_reviews, wire, served,
          events, stdout, result>>

----------------------------------------------------------------------------
(* Bounds of the exploration *)

\* largest max_pages argument tried
MaxLimit == 2

\* an unlimited get_all_reviews is followed for this many pages
PageCap == MaxLimit + 1

(* Numbers of the program.  Durations are in milliseconds. *)
DefaultTimeout == 30000
DefaultRateLimitDelay == 100
DefaultPerPage == 20
MaxPerPage == 100
AllReviewsPerPage == 100
FullPage == 100

----------------------------------------------------------------------------
(* Python values *)

\* Optional[int]: None, or an int
NoneVal == [some |-> FALSE, v |-> 0]
Some(n) == [some |-> TRUE, v |-> n]

\* truth value of an Optional[int] (`if max_pages and ...`)
Truthy(o) == o.some /\ o.v # 0

\* min(a, b)
Min(a, b) == IF a <= b THEN a ELSE b

\* JSON values as Python objects: None or a list
Null == [t |-> "null", items |-> <<>>]
List(s) == [t |-> "list", items |-> s]

\* `not x` for a JSON value
Falsy(x) == x.t = "null" \/ x.items = <<>>

\* dict.get(key, default)
Get(doc, key, default) == IF key \in DOMAIN doc THEN doc[key] ELSE default

\* the empty dict
EmptyDoc == [k \in {} |-> Null]

\* str.lstrip('/') on a path given as a sequence of pieces
RECURSIVE Lstrip(_)
Lstrip(s) == IF s # <<>> /\ Head(s) = "/" THEN Lstrip(Tail(s)) ELSE s

----------------------------------------------------------------------------
(* Exceptions *)

NoExc == [type |-> "None", message |-> <<>>, cause |-> "None"]
Exc(type, message, cause) == [type |-> type, message |-> message, cause |-> cause]

\* the classes each exception class derives from (itself included)
Mro(cls) ==
    CASE cls = "TrustpilotAPIError" -> {"TrustpilotAPIError", "Exception"}
      [] cls = "Timeout"            -> {"Timeout", "RequestException", "Exception"}
      [] cls = "ReadTimeout"        -> {"ReadTimeout", "Timeout", "RequestException", "Exception"}
      [] cls = "ConnectTimeout"     -> {"ConnectTimeout", "ConnectionError", "Timeout",
                                        "RequestException", "Exception"}
      [] cls = "ConnectionError"    -> {"ConnectionError", "RequestException", "Exception"}
      [] cls = "TooManyRedirects"   -> {"TooManyRedirects", "RequestException", "Exception"}
      [] cls = "JSONDecodeError"    -> {"JSONDecodeError", "RequestException", "ValueError",
                                        "Exception"}
      [] cls = "ValueError"         -> {"ValueError", "Exception"}
      [] OTHER                      -> {}

IsInstance(e, cls) == cls \in Mro(e.type)

\* raise TrustpilotAPIError(message) [from cause]
TrustpilotAPIError(message, cause) == Exc("TrustpilotAPIError", message, cause)

----------------------------------------------------------------------------
(* The environment: response bodies and what the network does with a GET *)

FullA == "{\"reviews\": [a1 .. a100]}"
FullB == "{\"reviews\": [b1 .. b100]}"
Part42 == "{\"reviews\": [c1 .. c42]}"
Part99 == "{\"reviews\": [d1 .. d99]}"
NoReviews == "{\"reviews\": []}"
NullReviews == "{\"reviews\": null}"
Units == "{\"businessUnits\": [u1]}"
EmptyObject == "{}"
Html == "<html>Bad Gateway</html>"

JsonTexts == {FullA, FullB, Part42, Part99, NoReviews, NullReviews, Units, EmptyObject}
Texts == JsonTexts \cup {Html}

\* the items tag1 .. tagn of a JSON array
Items(tag, n) == [i \in 1..n |-> <<tag, i>>]

\* response.json() of a body that is JSON
Json(text) ==
    CASE text = FullA       -> [k \in {"reviews"} |-> List(Items("a", 100))]
      [] text = FullB       -> [k \in {"reviews"} |-> List(Items("b", 100))]
      [] text = Part42      -> [k \in {"reviews"} |-> List(Items("c", 42))]
      [] text = Part99      -> [k \in {"reviews"} |-> List(Items("d", 99))]
      [] text = NoReviews   -> [k \in {"reviews"} |-> List(<<>>)]
      [] text = NullReviews -> [k \in {"reviews"} |-> Null]
      [] text = Units       -> [k \in {"businessUnits"} |-> List(Items("u", 1))]
      [] OTHER              -> EmptyDoc

Statuses == {200, 401, 404, 429, 500, 503}
ErrorTexts == {Html, EmptyObject}
TransportErrors == {"Timeout", "ReadTimeout", "ConnectTimeout", "ConnectionError",
                    "TooManyRedirects"}

\* what session.get does: it raises, or it returns a response
ServerOutcomes ==
    {[raises |-> "none", status_code |-> 200, text |-> t, desc |-> ""] : t \in Texts}
    \cup {[raises |-> "none", status_code |-> s, text |-> t, desc |-> ""] :
            s \in Statuses \ {200}, t \in ErrorTexts}
    \cup {[raises |-> c, status_code |-> 0, text |-> "", desc |-> "network failure"] :
            c \in TransportErrors}

----------------------------------------------------------------------------
(* TrustpilotConfig and the client's construction *)

TrustpilotConfig(api_key, base_url, timeout, rate_limit_delay) ==
    [api_key |-> api_key, base_url |-> base_url, timeout |-> timeout,
     rate_limit_delay |-> rate_limit_delay]

Configs == {TrustpilotConfig("key-1", "https://api.trustpilot.com/v1",
                             DefaultTimeout, DefaultRateLimitDelay),
            TrustpilotConfig("key-2", "http://localhost:8080", 5000, 0)}

\* self.session.headers after __init__
SessionHeaders(cfg) ==
    [apikey |-> cfg.api_key, ContentType |-> "application/json",
     UserAgent |-> "TrustpilotAPIClient/1.0"]

----------------------------------------------------------------------------
(* _make_request *)

Ev(name, arg) == [ev |-> name, arg |-> arg]

\* the GET that session.get puts on the wire
Request(cfg, sess, endpoint, params) ==
    [method |-> "GET", url |-> <<cfg.base_url, "/">> \o Lstrip(endpoint),
     params |-> params, timeout |-> cfg.timeout, headers |-> sess]

Outcome(kind, doc, exc, evs) == [kind |-> kind, doc |-> doc, exc |-> exc, events |-> evs]

\* mutant: the 404 branch is missing, so a 404 falls through to the else
StatusBranch_no404(srv, bld, evs) ==
    IF srv.status_code = 200 THEN
        IF srv.text \in JsonTexts
        THEN Outcome("return", Json(srv.text), NoExc, evs)
        ELSE Outcome("raise", EmptyDoc, Exc(bld, <<"Expecting value">>, "None"), evs)
    ELSE IF srv.status_code = 401 THEN
        Outcome("raise", EmptyDoc,
                TrustpilotAPIError(<<"Invalid API key or unauthorized access">>, "None"), evs)
    ELSE IF srv.status_code = 429 THEN
        Outcome("raise", EmptyDoc,
                TrustpilotAPIError(
                    <<"Rate limit exceeded. Please wait before making more requests.">>,
                    "None"), evs)
    ELSE
        Outcome("raise", EmptyDoc,
                TrustpilotAPIError(<<"API request failed with status ",
                                     ToString(srv.status_code), ": ", srv.text>>, "None"), evs)

\* the if/elif chain on response.status_code, after the sleep
StatusBranch(srv, bld, evs) ==
    IF srv.status_code = 200 THEN
        IF srv.text \in JsonTexts
        THEN Outcome("return", Json(srv.text), NoExc, evs)
        ELSE Outcome("raise", EmptyDoc, Exc(bld, <<"Expecting value">>, "None"), evs)
    ELSE IF srv.status_code = 401 THEN
        Outcome("raise", EmptyDoc,
                TrustpilotAPIError(<<"Invalid API key or unauthorized access">>, "None"), evs)
    ELSE IF srv.status_code = 404 THEN
        Outcome("raise", EmptyDoc, TrustpilotAPIError(<<"Resource not found">>, "None"), evs)
    ELSE IF srv.status_code = 429 THEN
        Outcome("raise", EmptyDoc,
                TrustpilotAPIError(
                    <<"Rate limit exceeded. Please wait before making more requests.">>,
                    "None"), evs)
    ELSE
        Outcome("raise", EmptyDoc,
                TrustpilotAPIError(<<"API request failed with status ",
                                     ToString(srv.status_code), ": ", srv.text>>, "None"), evs)

\* the body of the try block
TryBody(cfg, srv, bld) ==
    IF srv.raises # "none"
    THEN Outcome("raise", EmptyDoc, Exc(srv.raises, <<srv.desc>>, "None"),
                 <<Ev("get", cfg.timeout)>>)
    ELSE StatusBranch(srv, bld,
                      <<Ev("get", cfg.timeout), Ev("sleep", cfg.rate_limit_delay)>>)

\* mutant: the ConnectionError clause comes before the Timeout clause
ExceptClauses_swapped(o) ==
    IF o.kind # "raise" THEN o
    ELSE IF IsInstance(o.exc, "ConnectionError") THEN
        Outcome("raise", EmptyDoc,
                TrustpilotAPIError(<<"Connection error occurred">>, o.exc.type), o.events)
    ELSE IF IsInstance(o.exc, "Timeout") THEN
        Outcome("raise", EmptyDoc,
                TrustpilotAPIError(<<"Request timed out">>, o.exc.type), o.events)
    ELSE IF IsInstance(o.exc, "RequestException") THEN
        Outcome("raise", EmptyDoc,
                TrustpilotAPIError(<<"Request failed: ">> \o o.exc.message, o.exc.type),
                o.events)
    ELSE o

\* the except clauses, in order
ExceptClauses(o) ==
    IF o.kind # "raise" THEN o
    ELSE IF IsInstance(o.exc, "Timeout") THEN
        Outcome("raise", EmptyDoc,
                TrustpilotAPIError(<<"Request timed out">>, o.exc.type), o.events)
    ELSE IF IsInstance(o.exc, "ConnectionError") THEN
        Outcome("raise", EmptyDoc,
                TrustpilotAPIError(<<"Connection error occurred">>, o.exc.type), o.events)
    ELSE IF IsInstance(o.exc, "RequestException") THEN
        Outcome("raise", EmptyDoc,
                TrustpilotAPIError(<<"Request failed: ">> \o o.exc.message, o.exc.type),
                o.events)
    ELSE o

\* mutant: the executor fills in an empty `reviews` when the body has none
make_request_defaults(cfg, sess, bld, endpoint, params, srv) ==
    LET o == ExceptClauses(TryBody(cfg, srv, bld)) IN
    [kind |-> o.kind,
     doc |-> IF o.kind = "return"
             THEN [k \in DOMAIN o.doc \cup {"reviews"} |-> Get(o.doc, k, List(<<>>))]
             ELSE o.doc,
     exc |-> o.exc,
     events |-> Append(o.events, Ev(o.kind, 0)),
     sent |-> <<Request(cfg, sess, endpoint, params)>>]

\* _make_request(endpoint, params) answered by srv
make_request(cfg, sess, bld, endpoint, params, srv) ==
    LET o == ExceptClauses(TryBody(cfg, srv, bld)) IN
    [kind |-> o.kind, doc |-> o.doc, exc |-> o.exc,
     events |-> Append(o.events, Ev(o.kind, 0)),
     sent |-> <<Request(cfg, sess, endpoint, params)>>]

----------------------------------------------------------------------------
(* The single-request operations *)

\* mutant: find_business_unit swallows the error and returns an empty result
find_business_unit_swallow(cfg, sess, bld, domain, srv) ==
    LET r == make_request(cfg, sess, bld, <<"business-units/find">>,
                          <<<<"name", domain>>>>, srv)
    IN  IF r.kind = "raise" THEN [r EXCEPT !.kind = "return", !.exc = NoExc] ELSE r

find_business_unit(cfg, sess, bld, domain, srv) ==
    make_request(cfg, sess, bld, <<"business-units/find">>, <<<<"name", domain>>>>, srv)

get_business_unit_info(cfg, sess, bld, buid, srv) ==
    make_request(cfg, sess, bld, <<"business-units/", buid>>, <<>>, srv)

\* mutant: per_page is sent as given
get_reviews_noclamp(cfg, sess, bld, buid, per_page, pg, srv) ==
    make_request(cfg, sess, bld, <<"business-units/", buid, "/reviews">>,
                 <<<<"perPage", per_page>>, <<"page", pg>>>>, srv)

get_reviews(cfg, sess, bld, buid, per_page, pg, srv) ==
    make_request(cfg, sess, bld, <<"business-units/", buid, "/reviews">>,
                 <<<<"perPage", Min(per_page, MaxPerPage)>>, <<"page", pg>>>>, srv)

get_business_statistics(cfg, sess, bld, buid, srv) ==
    make_request(cfg, sess, bld, <<"business-units/", buid, "/statistics">>, <<>>, srv)

----------------------------------------------------------------------------
(* get_all_reviews *)

\* mutant: the limit is never looked at
LimitReached_never(max_pages, pg) == FALSE

\* `if max_pages and page > max_pages`
LimitReached(max_pages, pg) == Truthy(max_pages) /\ pg > max_pages.v

\* mutant: the last-page test comes before the extend, so a short page is lost
loop_body_drop_last(cfg, sess, bld, buid, pg, acc, srv) ==
    LET r == get_reviews(cfg, sess, bld, buid, AllReviewsPerPage, pg, srv)
        base == [r |-> r, all_reviews |-> acc, page |-> pg, brk |-> TRUE,
                 uncaught |-> NoExc, printed |-> <<>>]
    IN  IF r.kind = "raise" THEN
            IF IsInstance(r.exc, "TrustpilotAPIError")
            THEN [base EXCEPT !.printed =
                    <<<<"Error fetching page ", ToString(pg), ": ">> \o r.exc.message>>]
            ELSE [base EXCEPT !.uncaught = r.exc]
        ELSE LET reviews == Get(r.doc, "reviews", List(<<>>)) IN
            IF Falsy(reviews) \/ Len(reviews.items) < FullPage THEN base
            ELSE [base EXCEPT !.all_reviews = acc \o reviews.items, !.page = pg + 1,
                              !.brk = FALSE]

\* mutant: the except clause is missing, so an API error leaves the loop uncaught
loop_body_propagate(cfg, sess, bld, buid, pg, acc, srv) ==
    LET r == get_reviews(cfg, sess, bld, buid, AllReviewsPerPage, pg, srv)
        base == [r |-> r, all_reviews |-> acc, page |-> pg, brk |-> TRUE,
                 uncaught |-> NoExc, printed |-> <<>>]
    IN  IF r.kind = "raise" THEN [base EXCEPT !.uncaught = r.exc]
        ELSE LET reviews == Get(r.doc, "reviews", List(<<>>)) IN
            IF Falsy(reviews) THEN base
            ELSE [base EXCEPT !.all_reviews = acc \o reviews.items, !.page = pg + 1,
                              !.brk = Len(reviews.items) < FullPage]

\* one pass through the try/except of the while loop, the page answered by srv
loop_body(cfg, sess, bld, buid, pg, acc, srv) ==
    LET r == get_reviews(cfg, sess, bld, buid, AllReviewsPerPage, pg, srv)
        base == [r |-> r, all_reviews |-> acc, page |-> pg, brk |-> TRUE,
                 uncaught |-> NoExc, printed |-> <<>>]
    IN  IF r.kind = "raise" THEN
            IF IsInstance(r.exc, "TrustpilotAPIError")
            THEN [base EXCEPT !.printed =
                    <<<<"Error fetching page ", ToString(pg), ": ">> \o r.exc.message>>]
            ELSE [base EXCEPT !.uncaught = r.exc]
        ELSE LET reviews == Get(r.doc, "reviews", List(<<>>)) IN
            IF Falsy(reviews) THEN base
            ELSE [base EXCEPT !.all_reviews = acc \o reviews.items,
                              !.page = pg + 1,
                              !.brk = Len(reviews.items) < FullPage]

----------------------------------------------------------------------------
(* Inputs *)

Domains == {"example.com", "trustpilot.com"}
BUIDs == {"bu1"}
PerPageInputs == {-1, 0, DefaultPerPage, 100, 101, 150}
PageInputs == {1, 2}
MaxPagesInputs == {NoneVal} \cup {Some(n) : n \in -1..MaxLimit}
JsonErrorClasses == {"JSONDecodeError", "ValueError"}

Call(op, buid, per_page, pg, max_pages, domain) ==
    [op |-> op, buid |-> buid, per_page |-> per_page, page |-> pg,
     max_pages |-> max_pages, domain |-> domain]

Result(kind, doc, list, exc) == [kind |-> kind, doc |-> doc, list |-> list, exc |-> exc]

----------------------------------------------------------------------------
(* The state machine *)

Init ==
    /\ config \in Configs
    /\ session = SessionHeaders(config)
    /\ build \in JsonErrorClasses
    /\ pc = "idle"
    /\ call = Call("none", "", 0, 0, NoneVal, "")
    /\ page = 0
    /\ all_reviews = <<>>
    /\ wire = <<>>
    /\ served = <<>>
    /\ events = <<>>
    /\ stdout = <<>>
    /\ result = Result("none", EmptyDoc, <<>>, NoExc)

\* a single-request operation returns r to its caller
Single(c, r, srv) ==
    /\ call' = c
    /\ wire' = r.sent
    /\ served' = <<srv>>
    /\ events' = r.events
    /\ stdout' = <<>>
    /\ result' = Result(r.kind, r.doc, <<>>, r.exc)
    /\ page' = 0
    /\ all_reviews' = <<>>
    /\ UNCHANGED <<config, session, build, pc>>

FindBusinessUnit ==
    /\ pc = "idle"
    /\ \E domain \in Domains, srv \in ServerOutcomes :
        Single(Call("find_business_unit", "", 0, 0, NoneVal, domain),
               find_business_unit(config, session, build, domain, srv), srv)

GetBusinessUnitInfo ==
    /\ pc = "idle"
    /\ \E buid \in BUIDs, srv \in ServerOutcomes :
        Single(Call("get_business_unit_info", buid, 0, 0, NoneVal, ""),
               get_business_unit_info(config, session, build, buid, srv), srv)

GetReviews ==
    /\ pc = "idle"
    /\ \E buid \in BUIDs, per_page \in PerPageInputs, pg \in PageInputs,
          srv \in ServerOutcomes :
        Single(Call("get_reviews", buid, per_page, pg, NoneVal, ""),
               get_reviews(config, session, build, buid, per_page, pg, srv), srv)

GetBusinessStatistics ==
    /\ pc = "idle"
    /\ \E buid \in BUIDs, srv \in ServerOutcomes :
        Single(Call("get_business_statistics", buid, 0, 0, NoneVal, ""),
               get_business_statistics(config, session, build, buid, srv), srv)

\* get_all_reviews is called: all_reviews = [], page = 1, enter the loop
GetAllReviewsCall ==
    /\ pc = "idle"
    /\ \E buid \in BUIDs, max_pages \in MaxPagesInputs :
        call' = Call("get_all_reviews", buid, 0, 0, max_pages, "")
    /\ pc' = "loop"
    /\ page' = 1
    /\ all_reviews' = <<>>
    /\ wire' = <<>>
    /\ served' = <<>>
    /\ events' = <<>>
    /\ stdout' = <<>>
    /\ result' = Result("none", EmptyDoc, <<>>, NoExc)
    /\ UNCHANGED <<config, session, build>>

\* one iteration of `while True`; a break is followed by `return all_reviews`
GetAllReviewsIter ==
    /\ pc = "loop"
    /\ page <= PageCap
    /\ IF LimitReached(call.max_pages, page)
       THEN /\ pc' = "idle"
            /\ result' = Result("return", EmptyDoc, all_reviews, NoExc)
            /\ UNCHANGED <<page, all_reviews, wire, served, events, stdout>>
       ELSE \E srv \in ServerOutcomes :
            LET b == loop_body(config, session, build, call.buid, page, all_reviews, srv)
            IN  /\ wire' = wire \o b.r.sent
                /\ served' = Append(served, srv)
                /\ events' = b.r.events
                /\ stdout' = stdout \o b.printed
                /\ page' = b.page
                /\ all_reviews' = b.all_reviews
                /\ IF b.uncaught # NoExc
                   THEN /\ pc' = "idle"
                        /\ result' = Result("raise", EmptyDoc, <<>>, b.uncaught)
                   ELSE IF b.brk
                   THEN /\ pc' = "idle"
                        /\ result' = Result("return", EmptyDoc, b.all_reviews, NoExc)
                   ELSE /\ pc' = "loop"
                        /\ UNCHANGED result
    /\ UNCHANGED <<config, session, build, call>>

Next ==
    \/ FindBusinessUnit
    \/ GetBusinessUnitInfo
    \/ GetReviews
    \/ GetBusinessStatistics
    \/ GetAllReviewsCall
    \/ GetAllReviewsIter

Spec == Init /\ [][Next]_vars

\* the loop is sequential code: an iteration that can run does run
FairSpec == Spec /\ WF_vars(GetAllReviewsIter)

----------------------------------------------------------------------------
(* Vocabulary of the properties *)

Singles == {"find_business_unit", "get_business_unit_info", "get_reviews",
            "get_business_statistics"}

\* the operation op has handed its result to the caller
Finished(op) == pc = "idle" /\ call.op = op /\ result.kind # "none"
FinishedSingle == pc = "idle" /\ call.op \in Singles

Last(s) == s[Len(s)]

\* the server answered 200 with a JSON body
Answered(srv) == srv.raises = "none" /\ srv.status_code = 200 /\ srv.text \in JsonTexts

\* the reviews an answer carries (none when the key is missing or null)
ReviewsOf(srv) == Get(Json(srv.text), "reviews", List(<<>>)).items
IsFullPage(srv) == Answered(srv) /\ Len(ReviewsOf(srv)) = 100
IsShortPage(srv) == Answered(srv) /\ Len(ReviewsOf(srv)) < 100

\* the request for this answer fails with an error of the API error family
FailsWithAPIError(srv) ==
    \/ srv.raises \in TransportErrors
    \/ srv.raises = "none" /\ srv.status_code # 200
    \/ srv.raises = "none" /\ srv.status_code = 200 /\ srv.text \notin JsonTexts
       /\ build = "JSONDecodeError"

\* the reviews of the first k answers, in page order
RECURSIVE Concat(_, _)
Concat(s, k) == IF k = 0 THEN <<>> ELSE Concat(s, k - 1) \o ReviewsOf(s[k])

\* the i-th request is a GET of page i of the reviews at page size 100
IsPageRequest(i) ==
    /\ wire[i].method = "GET"
    /\ wire[i].url = <<config.base_url, "/", "business-units/", call.buid, "/reviews">>
    /\ wire[i].params = <<<<"perPage", 100>>, <<"page", i>>>>

AllFullBefore(k) == \A i \in 1..(k - 1) : IsFullPage(served[i])

\* the error kinds of the specification, as a caller reads them off an error
KindOf(exc) ==
    IF exc.type # "TrustpilotAPIError" \/ exc.message = <<>> THEN "none"
    ELSE IF exc.message = <<"Invalid API key or unauthorized access">>
        THEN "AuthenticationError"
    ELSE IF exc.message = <<"Resource not found">> THEN "NotFoundError"
    ELSE IF exc.message = <<"Rate limit exceeded. Please wait before making more requests.">>
        THEN "RateLimitError"
    ELSE IF exc.message = <<"Request timed out">> THEN "TimeoutError"
    ELSE IF exc.message = <<"Connection error occurred">> THEN "ConnectionError"
    ELSE IF Head(exc.message) \in {"API request failed with status ", "Request failed: "}
        THEN "RequestError"
    ELSE "none"

KindOfStatus(s) ==
    CASE s = 401 -> "AuthenticationError"
      [] s = 404 -> "NotFoundError"
      [] s = 429 -> "RateLimitError"
      [] OTHER   -> "RequestError"

----------------------------------------------------------------------------
(* C1: get_all_reviews without max_pages, answered by full pages 1..k-1 and
   then a first page of fewer than 100 reviews (possibly none), has sent
   exactly the k requests for pages 1, 2, ..., k in that order, each with
   perPage 100, and returns the reviews of pages 1..k concatenated in page
   order; and it never returns right after a full page. *)
C1_AllPagesCollected ==
    (Finished("get_all_reviews") /\ call.max_pages = NoneVal) =>
        LET k == Len(served) IN
        /\ ~(k > 0 /\ AllFullBefore(k + 1))
        /\ (k > 0 /\ IsShortPage(served[k]) /\ AllFullBefore(k)) =>
            /\ Len(wire) = k
            /\ \A i \in 1..k : IsPageRequest(i)
            /\ result.kind = "return"
            /\ result.list = Concat(served, k)

C1_Witness ==
    /\ Finished("get_all_reviews") /\ call.max_pages = NoneVal
    /\ Len(served) = 3
    /\ served[1].text = FullA /\ served[2].text = FullB /\ served[3].text = Part42
    /\ IsFullPage(served[1]) /\ IsFullPage(served[2]) /\ IsShortPage(served[3])
    /\ Len(result.list) = 242 /\ Len(wire) = 3

(* C2: when the request for page k of get_all_reviews fails with an API error
   after k-1 full pages, the operation has stopped, has returned (not raised)
   exactly the reviews of pages 1..k-1 in page order, and has sent exactly k
   requests, the last of them the single request for page k. *)
C2_PartialResultOnError ==
    LET k == Len(served) IN
    (call.op = "get_all_reviews" /\ k > 0 /\ FailsWithAPIError(served[k])
        /\ AllFullBefore(k)) =>
        /\ pc = "idle"
        /\ result.kind = "return"
        /\ result.exc = NoExc
        /\ result.list = Concat(served, k - 1)
        /\ Len(wire) = k
        /\ \A i \in 1..k : IsPageRequest(i)

C2_Witness ==
    /\ Finished("get_all_reviews")
    /\ Len(served) = 2 /\ IsFullPage(served[1])
    /\ served[2].raises = "none" /\ served[2].status_code = 429
    /\ result.kind = "return" /\ Len(result.list) = 100 /\ Len(wire) = 2

(* C3: whenever get_all_reviews is given an integer max_pages N (anything but
   None), it sends at most N requests and collects at most 100*N reviews
   (none at all for N below 1). *)
C3_LimitBoundsRequests ==
    (call.op = "get_all_reviews" /\ call.max_pages.some) =>
        LET n == IF call.max_pages.v < 0 THEN 0 ELSE call.max_pages.v IN
        /\ Len(wire) <= n
        /\ Len(all_reviews) <= 100 * n
        /\ Len(result.list) <= 100 * n

(* C4: a response with status 401 makes the operation fail with the
   AuthenticationError kind, 404 with NotFoundError, 429 with RateLimitError,
   any other status but 200 with RequestError carrying the status code and
   the raw body text; all are TrustpilotAPIError, and the kind read off the
   error is the kind of the status. *)
C4_StatusMapping ==
    (FinishedSingle /\ served[1].raises = "none" /\ served[1].status_code # 200) =>
        LET s == served[1].status_code IN
        /\ result.kind = "raise"
        /\ result.exc.type = "TrustpilotAPIError"
        /\ KindOf(result.exc) = KindOfStatus(s)
        /\ s \notin {401, 404, 429} =>
            /\ result.exc.message[2] = ToString(s)
            /\ result.exc.message[4] = served[1].text

C4_Witness ==
    /\ Finished("get_business_statistics")
    /\ served[1].raises = "none" /\ served[1].status_code = 500 /\ served[1].text = Html
    /\ KindOf(result.exc) = "RequestError"
    /\ result.exc.message = <<"API request failed with status ", "500", ": ", Html>>

(* C5: a timeout of the transport makes the operation fail with the
   TimeoutError kind, a connection failure with ConnectionError, any other
   transport failure with RequestError carrying the failure's description;
   an error of the status mapping keeps its kind and has no transport cause. *)
C5_TransportMapping ==
    FinishedSingle =>
        LET srv == served[1] IN
        /\ srv.raises \in {"Timeout", "ReadTimeout", "ConnectTimeout"} =>
            (result.kind = "raise" /\ KindOf(result.exc) = "TimeoutError")
        /\ srv.raises = "ConnectionError" =>
            (result.kind = "raise" /\ KindOf(result.exc) = "ConnectionError")
        /\ srv.raises = "TooManyRedirects" =>
            /\ result.kind = "raise"
            /\ KindOf(result.exc) = "RequestError"
            /\ result.exc.message = <<"Request failed: ", srv.desc>>
        /\ (srv.raises = "none" /\ srv.status_code # 200) =>
            /\ KindOf(result.exc) = KindOfStatus(srv.status_code)
            /\ Head(result.exc.message) # "Request failed: "
            /\ result.exc.cause = "None"

C5_Witness ==
    /\ Finished("get_business_unit_info")
    /\ served[1].raises = "ConnectTimeout"
    /\ result.kind = "raise" /\ KindOf(result.exc) = "TimeoutError"

(* C6: when the executor fails, each of find_business_unit,
   get_business_unit_info, get_reviews and get_business_statistics fails to
   its caller with the executor's error unchanged after exactly one request;
   get_all_reviews returns instead of failing when a page fails with an API
   error. *)
C6_ErrorsPropagateOnce ==
    /\ FinishedSingle =>
        LET x == make_request(config, session, build, <<>>, <<>>, served[1]) IN
        /\ Len(wire) = 1 /\ Len(served) = 1
        /\ x.kind = "raise" => (result.kind = "raise" /\ result.exc = x.exc)
    /\ (call.op = "get_all_reviews" /\ served # <<>> /\ FailsWithAPIError(Last(served))) =>
        (result.kind = "return" /\ result.exc = NoExc)

C6_Witness ==
    /\ Finished("find_business_unit")
    /\ served[1].raises = "none" /\ served[1].status_code = 429
    /\ result.kind = "raise" /\ KindOf(result.exc) = "RateLimitError"
    /\ Len(wire) = 1

(* C7: every call of the executor, however it ends, is the request, then the
   pause of the configured inter-request delay, then the return or raise. *)
C7_DelayOnEveryPath ==
    events # <<>> =>
        /\ Len(events) = 3
        /\ events[1].ev = "get"
        /\ events[2] = Ev("sleep", config.rate_limit_delay)
        /\ events[3].ev \in {"return", "raise"}

(* C8: get_reviews sends perPage = 100 for every per_page above 100 and
   perPage = per_page for every per_page of at most 100 (0 and negative
   included), and sends page = the page argument. *)
C8_PerPageClamp ==
    Finished("get_reviews") =>
        /\ Len(wire) = 1
        /\ wire[1].params[1] =
              <<"perPage", IF call.per_page > 100 THEN 100 ELSE call.per_page>>
        /\ wire[1].params[2] = <<"page", call.page>>

C8_Witness ==
    /\ Finished("get_reviews")
    /\ call.per_page = 150 /\ call.page = 2
    /\ wire[1].params = <<<<"perPage", 100>>, <<"page", 2>>>>

(* C9: every step leaves the client's configuration and session headers as
   they were, and a single-request operation answered 200 with a JSON body
   returns exactly the decoded body. *)
C9_PayloadPassThrough ==
    [][/\ config' = config
       /\ session' = session
       /\ (pc' = "idle" /\ call'.op \in Singles /\ Answered(served'[1])) =>
            (result'.kind = "return" /\ result'.doc = Json(served'[1].text))]_vars

C9_Witness ==
    /\ Finished("find_business_unit")
    /\ served[1].status_code = 200 /\ served[1].text = Units
    /\ result.kind = "return"
    /\ result.doc = [k \in {"businessUnits"} |-> List(<<<<"u", 1>>>>)]

(* C10: with a positive max_pages get_all_reviews always finishes; without
   max_pages it has returned only after an answer that is short, empty,
   without reviews or an API error, it has finished as soon as such an answer
   came, and after any number of full pages it is still in its loop asking
   for the next page. *)
C10_Termination ==
    /\ [](pc = "loop" /\ call.max_pages.some /\ call.max_pages.v > 0 => <>(pc = "idle"))
    /\ []((call.op = "get_all_reviews" /\ call.max_pages = NoneVal) =>
            LET k == Len(served) IN
            /\ (pc = "idle" /\ result.kind = "return") =>
                (k > 0 /\ (IsShortPage(served[k]) \/ FailsWithAPIError(served[k])))
            /\ (k > 0 /\ (IsShortPage(served[k]) \/ FailsWithAPIError(served[k]))) =>
                pc = "idle"
            /\ AllFullBefore(k + 1) => (pc = "loop" /\ page = k + 1))

C10_Witness ==
    /\ Finished("get_all_reviews")
    /\ call.max_pages = Some(2)
    /\ Len(served) = 2 /\ IsFullPage(served[1]) /\ IsFullPage(served[2])
    /\ result.kind = "return" /\ Len(result.list) = 200

====
